---- MODULE Spec2Model ----
(***************************************************************************)
(* A model of encodium (src/encodium/__init__.py) as it is shipped: the    *)
(* constructor Field.__init__, the classmethod Field.make, and the binary  *)
(* codec of Field / String / Integer / List / Boolean / Bytes.             *)
(*                                                                         *)
(* Five specifications share the variables:                                *)
(*   SpecInit       Field.__init__, List.__init__ and the classmethod      *)
(*                  Field.make as they run (lines 166-181, 334-336,        *)
(*                  376-378);                                              *)
(*   SpecLen        encode_length / decode_length as pure functions;       *)
(*   SpecInt        Integer.serialize / Integer.deserialize as pure        *)
(*                  functions;                                             *)
(*   SpecConstruct  Schema.make(key=value, ...) on schema classes, with   *)
(*                  the keyword arguments a caller passes;                 *)
(*   SpecCodec      get_fields, Field.serialize, Field.deserialize (and    *)
(*                  the type plugins) as functions of their arguments.     *)
(*                                                                         *)
(* Field.__init__ raises at line 177, before the statements that number    *)
(* the object and define FieldInstance, __setattr__, __eq__ and the        *)
(* instance method make (lines 179-259).  Those statements never run: no   *)
(* Field object leaves the constructor, no record instance exists, and the *)
(* model has no state in which one does.  The methods defined at class     *)
(* level (lines 264-455) exist and can be called as functions with any     *)
(* object as self.  SpecCodec applies get_fields, Field.serialize and      *)
(* Field.deserialize to an object of a schema class made without the       *)
(* constructor, and to a value that is a plain object with one attribute   *)
(* per key.  A schema class is either declared with the constructors (its  *)
(* fields() calls Integer(), String(...), ...), or bare: its fields()      *)
(* binds field objects that were made without the constructor and carry    *)
(* the attributes the methods read.                                        *)
(*                                                                         *)
(* Python values are records [t, i, s, l]: t is value.__class__.__name__,  *)
(* i the number of an int or bool, s the code points of a str or the bytes *)
(* of a bytes object, l the elements of a list or the attribute values (in *)
(* the order of the keys) of an object.  The result of a call is a record  *)
(* [exc, msg, val]: exc is "none" or the class name of the exception that  *)
(* propagates, msg the pieces of e.args[0] in order, val the return value. *)
(***************************************************************************)
EXTENDS Integers, Sequences, FiniteSets, TLC

VARIABLES
    pc,          \* what the last operation was
    Field_order, \* the class attribute Field._order
    stderr,      \* number of deprecation messages written to sys.stderr
    len_in,      \* argument of encode_length
    len_out,     \* result of encode_length
    len_back,    \* result of decode_length on len_out
    int_in,      \* argument of Integer.serialize
    int_signed,  \* the option self.signed
    int_out,     \* result of Integer.serialize
    int_back,    \* result of Integer.deserialize on int_out
    cls,         \* class name of the schema in use
    rec,         \* the value handed to Field.serialize; the instance a constructor returned
    err,         \* result of the last constructor, make or deserialize call
    last,        \* inputs of the last constructor or make call
    wire,        \* result of the last Field.serialize
    decoded      \* the keyword arguments Field.deserialize built (line 332)

vars == <<pc, Field_order, stderr, len_in, len_out, len_back,
          int_in, int_signed, int_out, int_back, cls, rec, err, last, wire, decoded>>

initVars == <<Field_order, stderr>>
lenVars == <<len_in, len_out, len_back>>
intVars == <<int_in, int_signed, int_out, int_back>>
engVars == <<cls, rec, err, last, wire, decoded>>

----------------------------------------------------------------------------
(* Python values and call results *)

PyNone == [t |-> "NoneType", i |-> 0, s |-> <<>>, l |-> <<>>]
PyInt(n) == [t |-> "int", i |-> n, s |-> <<>>, l |-> <<>>]
PyBool(b) == [t |-> "bool", i |-> IF b THEN 1 ELSE 0, s |-> <<>>, l |-> <<>>]
PyStr(cps) == [t |-> "str", i |-> 0, s |-> cps, l |-> <<>>]
PyBytes(bs) == [t |-> "bytes", i |-> 0, s |-> bs, l |-> <<>>]
PyList(xs) == [t |-> "list", i |-> 0, s |-> <<>>, l |-> xs]
PyInstance(name, attrs) == [t |-> name, i |-> 0, s |-> <<>>, l |-> attrs]

Ok(v) == [exc |-> "none", msg |-> <<>>, val |-> v]
Raise(e, m) == [exc |-> e, msg |-> m, val |-> PyNone]
Failed(r) == r.exc # "none"

\* Statement sequencing: the exception of r if it raised, else the result s.
Then(r, s) == IF Failed(r) THEN r ELSE s

\* The value a variable holds before the operation that sets it has run.
Idle == Raise("idle", <<>>)

----------------------------------------------------------------------------
(* int.bit_length, int.to_bytes and int.from_bytes *)

RECURSIVE bit_length(_)
bit_length(n) ==
    LET a == IF n < 0 THEN -n ELSE n
    IN IF a = 0 THEN 0 ELSE 1 + bit_length(a \div 2)

\* The n low-order base-256 digits of i, most significant first.  For a
\* negative i these are the digits of its two's complement.
RECURSIVE BigEndian(_, _)
BigEndian(i, n) ==
    IF n = 0 THEN <<>> ELSE BigEndian(i \div 256, n - 1) \o <<i % 256>>

\* i shifted right by n bytes (arithmetic shift).
RECURSIVE ShiftBytes(_, _)
ShiftBytes(i, n) == IF n = 0 THEN i ELSE ShiftBytes(i \div 256, n - 1)

\* i.to_bytes(n, 'big', signed=signed): OverflowError when i does not fit.
to_bytes(i, n, signed) ==
    IF signed
    THEN IF (n = 0 /\ i \in {0, -1}) \/ (n > 0 /\ ShiftBytes(i, n - 1) \in -128..127)
         THEN Ok(PyBytes(BigEndian(i, n)))
         ELSE Raise("OverflowError", <<"int too big to convert">>)
    ELSE IF i < 0
         THEN Raise("OverflowError", <<"can't convert negative int to unsigned">>)
         ELSE IF ShiftBytes(i, n) = 0
              THEN Ok(PyBytes(BigEndian(i, n)))
              ELSE Raise("OverflowError", <<"int too big to convert">>)

RECURSIVE Unsigned(_)
Unsigned(bs) ==
    IF bs = <<>> THEN 0
    ELSE 256 * Unsigned(SubSeq(bs, 1, Len(bs) - 1)) + bs[Len(bs)]

RECURSIVE Pow256(_)
Pow256(n) == IF n = 0 THEN 1 ELSE 256 * Pow256(n - 1)

\* int.from_bytes(bs, 'big', signed=signed)
from_bytes(bs, signed) ==
    IF signed /\ bs # <<>> /\ bs[1] >= 128
    THEN Unsigned(bs) - Pow256(Len(bs))
    ELSE Unsigned(bs)

----------------------------------------------------------------------------
(* Integer.serialize, Integer.deserialize (lines 363-370) *)

Integer_serialize(signed, i) ==
    LET bits0 == bit_length(i)
        bits == IF signed /\ i > 0 /\ bits0 % 8 = 0 THEN bits0 + 1 ELSE bits0
        n == (bits + 7) \div 8
    IN to_bytes(i, IF n > 1 THEN n ELSE 1, signed)

Integer_deserialize(signed, data) == PyInt(from_bytes(data, signed))

----------------------------------------------------------------------------
(* encode_length (lines 290-297, 400-407), decode_length (lines 311-318,   *)
(* 420-427).  A length is a pair of limbs [hi, lo] standing for            *)
(* hi * 2^24 + lo, so that lengths of seven bytes can be written down.     *)

Limb == 256 * 256 * 256
Big(h, l) == [hi |-> h, lo |-> l]
NatToBig(n) == Big(n \div Limb, n % Limb)
\* Only used where the number is below 2^31.
BigToNat(b) == b.hi * Limb + b.lo
BigAtLeast(b, n) == b.hi > 0 \/ b.lo >= n

big_bit_length(b) == IF b.hi > 0 THEN 24 + bit_length(b.hi) ELSE bit_length(b.lo)

\* length.to_bytes(n, 'big') for the n the code passes, (bit_length + 7) >> 3
big_to_bytes(b, n) ==
    IF b.hi > 0 THEN BigEndian(b.hi, n - 3) \o BigEndian(b.lo, 3) ELSE BigEndian(b.lo, n)

big_from_bytes(bs) ==
    IF Len(bs) > 3
    THEN Big(Unsigned(SubSeq(bs, 1, Len(bs) - 3)), Unsigned(SubSeq(bs, Len(bs) - 2, Len(bs))))
    ELSE Big(0, Unsigned(bs))

OneByteMax == 249
MaxLengthLength == 6

encode_length_strict(length) ==
    LET encoded_length == big_to_bytes(length, (big_bit_length(length) + 7) \div 8)
    IN IF BigAtLeast(length, OneByteMax + 2)
       THEN IF Len(encoded_length) > MaxLengthLength
            THEN Raise("ValidationError", <<"length too big">>)
            ELSE Ok(PyBytes(<<Len(encoded_length) + OneByteMax>> \o encoded_length))
       ELSE Ok(PyBytes(encoded_length))

encode_length(length) ==
    LET encoded_length == big_to_bytes(length, (big_bit_length(length) + 7) \div 8)
    IN IF BigAtLeast(length, OneByteMax + 1)
       THEN IF Len(encoded_length) > MaxLengthLength
            THEN Raise("ValidationError", <<"length too big">>)
            ELSE Ok(PyBytes(<<Len(encoded_length) + OneByteMax>> \o encoded_length))
       ELSE Ok(PyBytes(encoded_length))

\* data[a:b] of Python, positions counted from 0, clamped to the buffer.
Slice(data, a, b) == SubSeq(data, a + 1, IF b < Len(data) THEN b ELSE Len(data))

\* Returns <<length, length_length>>.
decode_length(data, index) ==
    LET first == Unsigned(Slice(data, index, index + 1))
    IN IF first >= OneByteMax + 1
       THEN <<big_from_bytes(Slice(data, index + 1, index + 1 + (first - OneByteMax))),
              1 + (first - OneByteMax)>>
       ELSE <<Big(0, first), 1>>

----------------------------------------------------------------------------
(* SpecLen: encode_length and decode_length on a range of lengths *)

LenBound == 600

LenInputs ==
    {Big(0, l) : l \in 0..LenBound}
    \cup {Big(0, l) : l \in {65535, 65536, Limb - 1}}
    \cup {Big(h, l) : h \in {1, 255, 256, 65535, 65536, Limb - 1, Limb, Limb + 1, 127 * Limb},
                      l \in {0, 1, Limb - 1}}

InitLen ==
    /\ pc = "len_start"
    /\ len_in \in LenInputs /\ len_out = Idle /\ len_back = <<>>
    /\ Field_order = 0 /\ stderr = 0
    /\ int_in = 0 /\ int_signed = TRUE /\ int_out = Idle /\ int_back = PyNone
    /\ cls = "" /\ rec = PyNone /\ err = Idle /\ last = <<>> /\ wire = Idle /\ decoded = Idle

EncodeLength ==
    /\ pc = "len_start"
    /\ len_out' = encode_length(len_in)
    /\ pc' = "len_encoded"
    /\ UNCHANGED <<len_in, len_back, initVars, intVars, engVars>>

DecodeLength ==
    /\ pc = "len_encoded"
    /\ ~Failed(len_out)
    /\ len_back' = decode_length(len_out.val.s, 0)
    /\ pc' = "len_decoded"
    /\ UNCHANGED <<len_in, len_out, initVars, intVars, engVars>>

NextLen == EncodeLength \/ DecodeLength

SpecLen == InitLen /\ [][NextLen]_vars

\* The least k with length < 256^k (1 for length 0 .. 255).
FitsBytes(b, k) ==
    IF k <= 3 THEN b.hi = 0 /\ b.lo < Pow256(k)
    ELSE IF k - 3 <= 3 THEN b.hi < Pow256(k - 3) ELSE TRUE
MinBytes(b) == CHOOSE k \in 1..8 : FitsBytes(b, k) /\ \A j \in 1..(k - 1) : ~FitsBytes(b, j)

\* C4 as stated: a length up to 0xF9, 0 included, is encoded as the single
\* byte equal to it; a length from 0xFA on as the byte 0xF9 + k and the k
\* big-endian bytes of the length, k minimal; 'length too big' exactly when
\* k exceeds 6.
C4_AsStated ==
    pc = "len_encoded" =>
        LET k == MinBytes(len_in)
        IN IF ~BigAtLeast(len_in, 250)
           THEN len_out = Ok(PyBytes(<<len_in.lo>>))
           ELSE /\ Failed(len_out) <=> k > 6
                /\ Failed(len_out) => len_out = Raise("ValidationError", <<"length too big">>)
                /\ ~Failed(len_out) =>
                      /\ Len(len_out.val.s) = k + 1
                      /\ len_out.val.s[1] = 249 + k
                      /\ len_out.val.s[2] # 0
                      /\ big_from_bytes(Tail(len_out.val.s)) = len_in

\* C4 amended: as C4, but the length 0 is encoded as the empty byte string
\* (no byte at all); lengths 1 .. 0xF9 are the single byte equal to them.
C4_EncodeLength ==
    pc = "len_encoded" =>
        LET k == MinBytes(len_in)
        IN IF len_in = Big(0, 0)
           THEN len_out = Ok(PyBytes(<<>>))
           ELSE IF ~BigAtLeast(len_in, 250)
           THEN len_out = Ok(PyBytes(<<len_in.lo>>))
           ELSE /\ Failed(len_out) <=> k > 6
                /\ Failed(len_out) => len_out = Raise("ValidationError", <<"length too big">>)
                /\ ~Failed(len_out) =>
                      /\ Len(len_out.val.s) = k + 1
                      /\ len_out.val.s[1] = 249 + k
                      /\ len_out.val.s[2] # 0
                      /\ big_from_bytes(Tail(len_out.val.s)) = len_in

\* A length of 300 was encoded as 0xFB 0x01 0x2C, and one of 2^48 refused.
C4_Witness ==
    /\ pc = "len_encoded"
    /\ len_in = Big(0, 300)
    /\ len_out = Ok(PyBytes(<<251, 1, 44>>))

----------------------------------------------------------------------------
(* SpecInt: Integer.serialize and Integer.deserialize on a range of ints *)

IntBound == 33000

InitInt ==
    /\ pc = "int_start"
    /\ int_in \in (-IntBound)..IntBound /\ int_signed \in BOOLEAN
    /\ int_out = Idle /\ int_back = PyNone
    /\ Field_order = 0 /\ stderr = 0
    /\ len_in = Big(0, 0) /\ len_out = Idle /\ len_back = <<>>
    /\ cls = "" /\ rec = PyNone /\ err = Idle /\ last = <<>> /\ wire = Idle /\ decoded = Idle

IntegerSerialize ==
    /\ pc = "int_start"
    /\ int_out' = Integer_serialize(int_signed, int_in)
    /\ pc' = "int_encoded"
    /\ UNCHANGED <<int_in, int_signed, int_back, initVars, lenVars, engVars>>

IntegerDeserialize ==
    /\ pc = "int_encoded"
    /\ ~Failed(int_out)
    /\ int_back' = Integer_deserialize(int_signed, int_out.val.s)
    /\ pc' = "int_decoded"
    /\ UNCHANGED <<int_in, int_signed, int_out, initVars, lenVars, engVars>>

NextInt == IntegerSerialize \/ IntegerDeserialize

SpecInt == InitInt /\ [][NextInt]_vars

\* i lies in the range of an n-byte two's-complement number.
SignedFits(i, n) == ShiftBytes(i, n - 1) \in -128..127
MinSignedBytes(i) == CHOOSE n \in 1..5 : SignedFits(i, n) /\ \A j \in 1..(n - 1) : ~SignedFits(i, j)

\* C5: for every integer of a signed Integer field, negative, zero or
\* positive, serialize succeeds and returns the minimal big-endian
\* two's-complement payload (128 -> 0x00 0x80), and deserialize of that
\* payload returns the integer.
C5_IntegerPayload ==
    (int_signed /\ pc \in {"int_encoded", "int_decoded"}) =>
        /\ ~Failed(int_out)
        /\ Len(int_out.val.s) = MinSignedBytes(int_in)
        /\ int_out.val.s = BigEndian(int_in, MinSignedBytes(int_in))
        /\ int_in = 128 => int_out.val.s = <<0, 128>>
        /\ pc = "int_decoded" => int_back = PyInt(int_in)

\* What the code does for the integers C5 is wrong about: serialize succeeds
\* exactly when i >= 0 or the bit length of -i is no multiple of 8 or -i is
\* a power of 256 / 2; where it succeeds C5 holds.
IntegerPayloadWhereDefined ==
    (int_signed /\ pc \in {"int_encoded", "int_decoded"}) =>
        /\ Failed(int_out) <=>
              (int_in < 0 /\ Len(BigEndian(-int_in, (bit_length(int_in) + 7) \div 8)) # MinSignedBytes(int_in))
        /\ Failed(int_out) => int_out.exc = "OverflowError"
        /\ ~Failed(int_out) =>
              /\ int_out.val.s = BigEndian(int_in, MinSignedBytes(int_in))
              /\ pc = "int_decoded" => int_back = PyInt(int_in)

----------------------------------------------------------------------------
(* SpecInit: the constructors as shipped.  Field.__init__ (lines 169-181)  *)
(* writes the deprecation message and raises before it numbers the         *)
(* instance; List.__init__ (376-378) stores inner_field and calls it; the  *)
(* classmethod Field.make (334-336) calls cls() with no argument.          *)

MaxCalls == 6

FieldClasses == {"Field", "String", "Integer", "List", "Boolean", "Bytes",
                 "Person", "Blob", "Range", "Bag", "Tree"}
OptionValues == {"unset", "None", "True", "False"}

\* The outcome of Field.__init__ entered with Field._order = order: the
\* exception, the messages written to stderr, Field._order afterwards and
\* whether the object was handed back to the caller.
Field_init_numbering(order) ==
    [exc |-> "Exception", msg |-> <<"Upgrade Encodium">>, written |-> 1,
     order |-> order + 1, returned |-> FALSE]

\* Lines 169-177: the message, then the raise.
Field_init(order) ==
    [exc |-> "Exception", msg |-> <<"Upgrade Encodium">>, written |-> 1,
     order |-> order, returned |-> FALSE]

\* cls(): binding the arguments of __init__ comes first; List.__init__ has the
\* required positional parameter inner_field.
NewWithoutArguments(c, order) ==
    IF c = "List"
    THEN [exc |-> "TypeError", msg |-> <<"List.__init__() missing 1 required positional argument: 'inner_field'">>,
          written |-> 0, order |-> order, returned |-> FALSE]
    ELSE Field_init(order)

InitInit ==
    /\ pc = "init_start"
    /\ Field_order = 0 /\ stderr = 0
    /\ len_in = Big(0, 0) /\ len_out = Idle /\ len_back = <<>>
    /\ int_in = 0 /\ int_signed = TRUE /\ int_out = Idle /\ int_back = PyNone
    /\ cls = "" /\ rec = PyNone /\ err = Idle /\ last = <<>> /\ wire = Idle /\ decoded = Idle

\* The effects of one constructor call with outcome r on the state.
Outcome(r, what) ==
    /\ err' = [exc |-> r.exc, msg |-> r.msg, val |-> PyNone]
    /\ stderr' = stderr + r.written
    /\ Field_order' = r.order
    /\ last' = what
    /\ UNCHANGED <<lenVars, intVars, cls, rec, wire, decoded>>

\* SomeField(optional=..., default=...)
FieldInit ==
    /\ stderr < MaxCalls
    /\ \E c \in FieldClasses \ {"List"}, optional \in OptionValues, default \in OptionValues :
          Outcome(Field_init(Field_order), <<"__init__", c, optional, default>>)
    /\ pc' = "init_called"

\* List(inner_field, optional=..., default=...)
ListInit ==
    /\ stderr < MaxCalls
    /\ \E inner \in FieldClasses, optional \in OptionValues :
          Outcome(Field_init(Field_order), <<"__init__", "List", optional, inner>>)
    /\ pc' = "init_called"

\* SomeField.make(...), the classmethod
FieldMake ==
    /\ stderr < MaxCalls
    /\ \E c \in FieldClasses, data \in {"None", "bytes"} :
          Outcome(NewWithoutArguments(c, Field_order), <<"make", c, data, "unset">>)
    /\ pc' = "make_called"

NextInit == FieldInit \/ ListInit \/ FieldMake

SpecInit == InitInit /\ [][NextInit]_vars

UpgradeEncodium == Raise("Exception", <<"Upgrade Encodium">>)

\* C10 as stated: every call of the constructor and every call of the
\* classmethod make raises 'Upgrade Encodium'; Field._order stays 0 and no
\* instance is ever returned.
C10_AsStated ==
    /\ Field_order = 0
    /\ rec = PyNone
    /\ pc \in {"init_called", "make_called"} => err = UpgradeEncodium

\* C10 amended: every call of the constructor raises 'Upgrade Encodium';
\* every call of the classmethod make raises too: 'Upgrade Encodium', except
\* on List, where cls() fails with the TypeError of the missing inner_field
\* before Field.__init__ is entered; Field._order stays 0 and no instance is
\* ever returned.
C10_ConstructorAlwaysRaises ==
    /\ Field_order = 0
    /\ rec = PyNone
    /\ pc = "init_called" => err = UpgradeEncodium
    /\ pc = "make_called" =>
          IF last[2] = "List"
          THEN err = Raise("TypeError", <<"List.__init__() missing 1 required positional argument: 'inner_field'">>)
          ELSE err = UpgradeEncodium

\* Constructors and make were called MaxCalls times, the last one on Integer.
C10_Witness ==
    /\ pc = "init_called"
    /\ stderr = MaxCalls
    /\ last[2] = "Integer"
    /\ err = UpgradeEncodium

----------------------------------------------------------------------------
(* Fields and schemas.  A field record stands for the object a method      *)
(* receives as self: its class (kind) and the attributes the methods read  *)
(* from it: optional (line 268), default, max_length (line 346), signed    *)
(* (lines 365-370) and, for a List, the class and max_length of            *)
(* inner_field (lines 386, 394, 414, 433).  NoMaxLength stands for         *)
(* max_length = None.                                                      *)

NoMaxLength == -1

\* The exception of a constructor outcome as the result of the call.
Raised(r) == [exc |-> r.exc, msg |-> r.msg, val |-> PyNone]

FieldSpec(name, kind, optional, default) ==
    [name |-> name, kind |-> kind, optional |-> optional, default |-> default,
     max_length |-> NoMaxLength, signed |-> TRUE,
     inner |-> "", inner_max_length |-> NoMaxLength]

\* The inner_field of a List field.
InnerField(f) ==
    [FieldSpec("", f.inner, FALSE, PyNone) EXCEPT !.max_length = f.inner_max_length]

MaxNameLength == 2

SchemaClasses == {"Person", "Blob", "Range", "Bag", "Tree"}

\* The schema classes whose fields() binds field objects made without the
\* constructor.
BareClasses == {"BarePerson", "BareBlob", "BareRange", "BareBag", "BareTree"}

\* The Field objects among the locals of cls.fields() (lines 281-284), in
\* the order in which fields() binds them.
fields_locals(c) ==
    CASE c \in {"Person", "BarePerson"} ->
           << FieldSpec("age", "Integer", FALSE, PyNone),
              [FieldSpec("name", "String", FALSE, PyNone) EXCEPT !.max_length = MaxNameLength],
              FieldSpec("diabetic", "Boolean", FALSE, PyBool(TRUE)) >>
      [] c \in {"Blob", "BareBlob"} ->
           << FieldSpec("data", "Bytes", TRUE, PyNone),
              FieldSpec("text", "String", TRUE, PyNone) >>
      [] c \in {"Range", "BareRange"} ->
           << FieldSpec("lo", "Integer", FALSE, PyNone),
              FieldSpec("hi", "Integer", FALSE, PyNone) >>
      [] c \in {"Bag", "BareBag"} ->
           << [FieldSpec("items", "List", FALSE, PyList(<<>>)) EXCEPT !.inner = "Integer"],
              [FieldSpec("labels", "List", TRUE, PyNone) EXCEPT
                   !.inner = "String", !.inner_max_length = 1] >>
      [] c \in {"Tree", "BareTree"} ->
           << FieldSpec("left", c, TRUE, PyNone),
              FieldSpec("value", "String", FALSE, PyNone) >>
      [] OTHER -> <<>>

\* The code points of the keys, for the comparison of str.
key_chars(key) ==
    CASE key = "age" -> <<97, 103, 101>>
      [] key = "name" -> <<110, 97, 109, 101>>
      [] key = "diabetic" -> <<100, 105, 97, 98, 101, 116, 105, 99>>
      [] key = "data" -> <<100, 97, 116, 97>>
      [] key = "text" -> <<116, 101, 120, 116>>
      [] key = "lo" -> <<108, 111>>
      [] key = "hi" -> <<104, 105>>
      [] key = "items" -> <<105, 116, 101, 109, 115>>
      [] key = "labels" -> <<108, 97, 98, 101, 108, 115>>
      [] key = "left" -> <<108, 101, 102, 116>>
      [] key = "value" -> <<118, 97, 108, 117, 101>>

\* a < b on str: the first differing code point decides, a proper prefix
\* is smaller.
RECURSIVE str_lt(_, _)
str_lt(a, b) ==
    IF b = <<>> THEN FALSE
    ELSE IF a = <<>> THEN TRUE
    ELSE IF Head(a) # Head(b) THEN Head(a) < Head(b)
    ELSE str_lt(Tail(a), Tail(b))

\* ordered_fields.sort() (line 286) on the tuples (value._order, key, value).
\* No object has an _order of its own (line 180 is never reached), so
\* value._order is the class attribute Field._order for every field; the
\* tuples tie on it and the distinct keys decide.
RECURSIVE Inserted(_, _)
Inserted(f, sorted) ==
    IF sorted = <<>> THEN <<f>>
    ELSE IF str_lt(key_chars(f.name), key_chars(Head(sorted).name)) THEN <<f>> \o sorted
    ELSE <<Head(sorted)>> \o Inserted(f, Tail(sorted))

RECURSIVE Sorted(_)
Sorted(fs) == IF fs = <<>> THEN <<>> ELSE Inserted(Head(fs), Sorted(Tail(fs)))

\* The list get_fields returns (line 287) when fields() returns.
ordered_fields(c) == Sorted(fields_locals(c))

\* Field.get_fields (lines 277-287) on an object of class c: the
\* NotImplementedError of a class without fields(); the exception of the
\* first constructor that fields() calls; else the keys in sorted order
\* (the fields themselves are ordered_fields).
get_fields(c) ==
    IF c \notin SchemaClasses \cup BareClasses
    THEN Raise("NotImplementedError", <<c, " has no fields">>)
    ELSE IF c \in SchemaClasses
    THEN Raised(Field_init(0))
    ELSE Ok(PyList([k \in 1..Len(ordered_fields(c)) |-> PyStr(key_chars(ordered_fields(c)[k].name))]))

\* The deprecation messages written during a call with result r: one, by
\* the constructor whose raise propagates (lines 176-177).
written(r) == IF r.exc = "Exception" /\ r.msg = <<"Upgrade Encodium">> THEN 1 ELSE 0

\* The classes that set the class attribute type (lines 340, 358, 374, 439,
\* 449) and its __name__.
TypedClasses == {"String", "Integer", "List", "Boolean", "Bytes"}

TypeName(kind) ==
    CASE kind = "String" -> "str"
      [] kind = "Integer" -> "int"
      [] kind = "List" -> "list"
      [] kind = "Boolean" -> "bool"
      [] kind = "Bytes" -> "bytes"

FieldNames(c) == {fields_locals(c)[k].name : k \in 1..Len(fields_locals(c))}

\* getattr(value, key): the attribute values of an object are kept in the
\* order in which fields() binds the keys.
FieldIndex(c, key) == CHOOSE k \in 1..Len(fields_locals(c)) : fields_locals(c)[k].name = key
getattr(c, value, key) == value.l[FieldIndex(c, key)]

IsNone(v) == v.t = "NoneType"

\* A plain object carrying one attribute per key of a schema.
Object(attrs) == PyInstance("SimpleNamespace", attrs)

\* The stand-in self of class c handed to Field.serialize / Field.deserialize.
SchemaField(c) == FieldSpec("", c, FALSE, PyNone)

----------------------------------------------------------------------------
(* check_optional, check and check_type, the methods defined at class level *)

\* for x in value: the elements, or the TypeError of a value that cannot be
\* iterated.
Iterate(v) ==
    CASE v.t = "list" -> Ok(v)
      [] v.t = "str" -> Ok(PyList([k \in 1..Len(v.s) |-> PyStr(<<v.s[k]>>)]))
      [] v.t = "bytes" -> Ok(PyList([k \in 1..Len(v.s) |-> PyInt(v.s[k])]))
      [] OTHER -> Raise("TypeError", <<"'", v.t, "' object is not iterable">>)

\* len(value)
PyLen(v) ==
    CASE v.t = "list" -> Ok(PyInt(Len(v.l)))
      [] v.t \in {"str", "bytes"} -> Ok(PyInt(Len(v.s)))
      [] OTHER -> Raise("TypeError", <<"object of type '", v.t, "' has no len()">>)

\* Field.check_optional (lines 267-269)
Field_check_optional(f, value) ==
    IF ~f.optional /\ IsNone(value)
    THEN Raise("ValidationError", <<"cannot be None">>)
    ELSE Ok(PyNone)

\* String.check (lines 345-347)
TooLong(f, n) ==
    Then(n, IF n.val.i > f.max_length THEN Raise("ValidationError", <<"too long">>)
            ELSE Ok(PyNone))

String_check(f, value) ==
    IF f.max_length # NoMaxLength THEN TooLong(f, PyLen(value)) ELSE Ok(PyNone)

\* An "inner element " prefix on a ValidationError (lines 387-389, 395-397).
InnerElement(r) ==
    IF r.exc = "ValidationError" THEN Raise(r.exc, <<"inner element ">> \o r.msg) ELSE r

\* The first failure among the results rs, or success.
RECURSIVE FirstFailure(_)
FirstFailure(rs) ==
    IF rs = <<>> THEN Ok(PyNone)
    ELSE IF Failed(Head(rs)) THEN Head(rs) ELSE FirstFailure(Tail(rs))

\* field.check(value): String.check, List.check (lines 391-397), Field.check
\* (lines 264-265) otherwise.
RECURSIVE check(_, _)
List_check(f, it) ==
    Then(it, FirstFailure([k \in 1..Len(it.val.l) |->
                              InnerElement(check(InnerField(f), it.val.l[k]))]))

check(f, value) ==
    CASE f.kind = "String" -> String_check(f, value)
      [] f.kind = "List" -> List_check(f, Iterate(value))
      [] OTHER -> Ok(PyNone)

\* Field.check_type (lines 271-275).  self.type is a class attribute of the
\* five typed classes only; on an object of another class reading it raises
\* AttributeError.
Field_check_type(f, value) ==
    IF f.kind \notin TypedClasses
    THEN Raise("AttributeError", <<"'", f.kind, "' object has no attribute 'type'">>)
    ELSE IF value.t # TypeName(f.kind)
    THEN Raise("ValidationError", <<"is of type ", value.t, ", expected ", TypeName(f.kind)>>)
    ELSE Ok(PyNone)

\* field.check_type(value): List.check_type (lines 380-389) or Field.check_type
RECURSIVE check_type(_, _)
check_type(f, value) ==
    IF f.kind = "List"
    THEN IF value.t # "list"
         THEN Raise("ValidationError", <<"is of type", value.t, ", expected list">>)
         ELSE FirstFailure([k \in 1..Len(value.l) |->
                               InnerElement(check_type(InnerField(f), value.l[k]))])
    ELSE Field_check_type(f, value)

\* The classmethod make (lines 334-336): cls() raises, so the make of the
\* instance is never looked up and the arguments are never used.
make(c, order) == NewWithoutArguments(c, order)

----------------------------------------------------------------------------
(* The type plugins and the wire codec *)

\* The UTF-8 bytes of one code point.
utf8_char(c) ==
    IF c < 128 THEN <<c>>
    ELSE IF c < 2048 THEN <<192 + (c \div 64), 128 + (c % 64)>>
    ELSE IF c < 65536
         THEN <<224 + (c \div 4096), 128 + ((c \div 64) % 64), 128 + (c % 64)>>
         ELSE <<240 + (c \div 262144), 128 + ((c \div 4096) % 64),
                128 + ((c \div 64) % 64), 128 + (c % 64)>>

RECURSIVE utf8_bytes(_)
utf8_bytes(cps) ==
    IF cps = <<>> THEN <<>> ELSE utf8_char(Head(cps)) \o utf8_bytes(Tail(cps))

\* A surrogate code point (U+D800..U+DFFF) has no UTF-8 encoding.
IsSurrogate(c) == c \in 55296..57343

\* str.encode('utf-8'): UnicodeEncodeError (args[0] is the codec name) when
\* the string holds a surrogate.
utf8_encode(cps) ==
    IF \E k \in 1..Len(cps) : IsSurrogate(cps[k])
    THEN Raise("UnicodeEncodeError", <<"utf-8">>)
    ELSE Ok(PyBytes(utf8_bytes(cps)))

\* The number of bytes the lead byte b announces, 0 for a byte that cannot
\* start a character.
utf8_width(b) ==
    IF b < 128 THEN 1
    ELSE IF b \in 194..223 THEN 2
    ELSE IF b \in 224..239 THEN 3
    ELSE IF b \in 240..244 THEN 4
    ELSE 0

IsContinuation(b) == b \in 128..191

\* The character of w bytes at the head of bs is well formed: continuation
\* bytes follow, and the second byte excludes overlong forms, surrogates and
\* code points above U+10FFFF.
utf8_well_formed(bs, w) ==
    /\ w > 0
    /\ Len(bs) >= w
    /\ \A k \in 2..w : IsContinuation(bs[k])
    /\ bs[1] = 224 => bs[2] >= 160
    /\ bs[1] = 237 => bs[2] < 160
    /\ bs[1] = 240 => bs[2] >= 144
    /\ bs[1] = 244 => bs[2] < 144

utf8_code_point(bs, w) ==
    CASE w = 1 -> bs[1]
      [] w = 2 -> (bs[1] - 192) * 64 + (bs[2] - 128)
      [] w = 3 -> (bs[1] - 224) * 4096 + (bs[2] - 128) * 64 + (bs[3] - 128)
      [] OTHER -> (bs[1] - 240) * 262144 + (bs[2] - 128) * 4096
                  + (bs[3] - 128) * 64 + (bs[4] - 128)

\* bytes.decode('utf-8'): the code points, or UnicodeDecodeError (args[0] is
\* the codec name) on malformed input.
RECURSIVE utf8_decode_from(_, _)
utf8_decode_next(acc, bs, w) ==
    IF utf8_well_formed(bs, w)
    THEN utf8_decode_from(Append(acc, utf8_code_point(bs, w)), SubSeq(bs, w + 1, Len(bs)))
    ELSE Raise("UnicodeDecodeError", <<"utf-8">>)

utf8_decode_from(acc, bs) ==
    IF bs = <<>> THEN Ok(PyStr(acc)) ELSE utf8_decode_next(acc, bs, utf8_width(bs[1]))

utf8_decode(bs) == utf8_decode_from(<<>>, bs)

\* String.serialize (349-351), Bytes.serialize (451-452), Boolean.serialize
\* (441-442)
Prefixed(r) == Then(r, Ok(PyBytes(<<1>> \o r.val.s)))

String_serialize(v) == Prefixed(utf8_encode(v.s))
Bytes_serialize_raw(v) == Ok(PyBytes(v.s))

Bytes_serialize(v) == Ok(PyBytes(<<1>> \o v.s))
Boolean_serialize(v) == Ok(PyBytes(IF v.i # 0 THEN <<1>> ELSE <<0>>))

\* One chunk: b'\x00' for None, else the length prefix and the payload
\* (lines 302-307, 411-416); payload is the result of the plugin.
Framed(prefix, payload) == Then(prefix, Ok(PyBytes(prefix.val.s \o payload.val.s)))

Chunk(attr, payload) ==
    IF IsNone(attr) THEN Ok(PyBytes(<<0>>))
    ELSE Then(payload, Framed(encode_length(NatToBig(Len(payload.val.s))), payload))

\* b''.join(array) of the chunks after the marker, or the first exception.
RECURSIVE JoinChunks(_, _)
JoinChunks(acc, chunks) ==
    IF chunks = <<>> THEN Ok(PyBytes(acc))
    ELSE IF Failed(Head(chunks)) THEN Head(chunks)
    ELSE JoinChunks(acc \o Head(chunks).val.s, Tail(chunks))

FormatMarker == 1

\* field.serialize(value): the plugin of the field's class; List.serialize
\* (lines 399-417); Field.serialize (lines 289-308) for a schema class,
\* over the pairs self.get_fields() returns (line 300).
RECURSIVE serialize(_, _)
serialize(f, value) ==
    CASE f.kind = "String" -> String_serialize(value)
      [] f.kind = "Bytes" -> Bytes_serialize(value)
      [] f.kind = "Boolean" -> Boolean_serialize(value)
      [] f.kind = "Integer" -> Integer_serialize(f.signed, value.i)
      [] f.kind = "List" ->
           JoinChunks(<<FormatMarker>>,
                      [k \in 1..Len(value.l) |->
                          Chunk(value.l[k],
                                IF IsNone(value.l[k]) THEN Idle
                                ELSE serialize(InnerField(f), value.l[k]))])
      [] OTHER ->
           Then(get_fields(f.kind),
                JoinChunks(<<FormatMarker>>,
                      [k \in 1..Len(ordered_fields(f.kind)) |->
                          Chunk(getattr(f.kind, value, ordered_fields(f.kind)[k].name),
                                IF IsNone(getattr(f.kind, value, ordered_fields(f.kind)[k].name))
                                THEN Idle
                                ELSE serialize(ordered_fields(f.kind)[k],
                                               getattr(f.kind, value, ordered_fields(f.kind)[k].name)))]))

\* Field.serialize with a self of class c on an object with its attributes
Field_serialize(c, value) == serialize(SchemaField(c), value)

\* The while loop of Field.deserialize and List.deserialize (lines 320-325,
\* 429-434): the payload slices from position i on.
RECURSIVE ParseChunks(_, _)
NextChunk(data, i, length, length_length) ==
    <<Slice(data, i + length_length, i + length_length + length)>>
    \o ParseChunks(data, i + length_length + length)

Decoded(data, i, d) == NextChunk(data, i, BigToNat(d[1]), d[2])

ParseChunks(data, i) ==
    IF i < Len(data) THEN Decoded(data, i, decode_length(data, i)) ELSE <<>>

String_deserialize(data) == utf8_decode(Slice(data, 1, Len(data)))
Bytes_deserialize(data) == Ok(PyBytes(Slice(data, 1, Len(data))))
Boolean_deserialize(data) == Ok(PyBool(data = <<1>>))

\* The values of results rs as a list, or the first exception.
RECURSIVE Collect(_, _)
Collect(acc, rs) ==
    IF rs = <<>> THEN Ok(PyList(acc))
    ELSE IF Failed(Head(rs)) THEN Head(rs)
    ELSE Collect(Append(acc, Head(rs).val), Tail(rs))

\* field.deserialize(data): the plugin of the field's class; List.deserialize
\* (lines 419-435); Field.deserialize (lines 310-332) for a schema class:
\* the chunks are paired with the fields by position (zip), an empty chunk
\* is None, and the values are handed to self.make as keyword arguments;
\* make is the classmethod, which raises.
RECURSIVE deserialize(_, _)
List_items(f, array) ==
    Collect(<<>>, [k \in 1..Len(array) |-> deserialize(InnerField(f), array[k])])

\* zip(self.get_fields(), array) stops at the shorter of the two.
Zipped(fields, array) == IF Len(array) < Len(fields) THEN Len(array) ELSE Len(fields)

\* The values of kwargs (lines 326-331) in the order of get_fields(), or
\* the exception of the first field.deserialize that raises.
Field_items(fields, array) ==
    Collect(<<>>, [k \in 1..Zipped(fields, array) |->
                      IF array[k] = <<>> THEN Ok(PyNone)
                      ELSE deserialize(fields[k], array[k])])

\* Line 332: self.make(key=value, ...) once kwargs is built.
MakeFrom(c, items) == Then(items, Raised(make(c, 0)))

deserialize(f, data) ==
    CASE f.kind = "String" -> String_deserialize(data)
      [] f.kind = "Bytes" -> Bytes_deserialize(data)
      [] f.kind = "Boolean" -> Boolean_deserialize(data)
      [] f.kind = "Integer" -> Ok(Integer_deserialize(f.signed, data))
      [] f.kind = "List" -> List_items(f, ParseChunks(data, 1))
      [] OTHER ->
           Then(get_fields(f.kind),
                MakeFrom(f.kind, Field_items(ordered_fields(f.kind), ParseChunks(data, 1))))

\* Field.deserialize with a self of class c
Field_deserialize(c, data) == deserialize(SchemaField(c), data)

\* kwargs as Field.deserialize has built it when it reaches line 332, or
\* the exception raised before.
Field_kwargs(c, data) ==
    Then(get_fields(c), Field_items(ordered_fields(c), ParseChunks(data, 1)))

----------------------------------------------------------------------------
(* SpecConstruct: Schema.make(key=value, ...), the way a record is built.  *)
(* make is the classmethod of lines 334-336: cls() enters Field.__init__,   *)
(* which writes the message and raises; the keyword arguments are never     *)
(* looked at.                                                               *)

MaxConstructs == 2

\* The schema classes make is called on.
ConstructClasses == {"Person", "Blob", "Range", "Bag"}

\* The values a caller passes for a field: well-typed ones, None, and
\* values of other kinds.  97 is 'a'.
Candidates(c, key) ==
    CASE key = "age" -> {PyNone, PyStr(<<97>>), PyInt(0), PyBool(TRUE)}
      [] key = "name" ->
           {PyNone, PyInt(5), PyBytes(<<97>>), PyStr(<<>>), PyStr(<<97, 98, 99>>)}
      [] key = "diabetic" -> {PyNone, PyBool(TRUE), PyInt(1)}
      [] key = "data" -> {PyNone, PyStr(<<>>), PyInt(0), PyBytes(<<>>)}
      [] key = "text" -> {PyNone, PyInt(7), PyStr(<<>>)}
      [] key \in {"lo", "hi"} -> {PyNone, PyStr(<<97>>), PyInt(0)}
      [] key = "items" -> {PyNone, PyInt(5), PyList(<<>>), PyList(<<PyStr(<<97>>)>>)}
      [] key = "labels" -> {PyNone, PyList(<<>>), PyList(<<PyInt(5)>>)}
      [] OTHER -> {PyNone}

\* The sequences of distinct field names: which keyword arguments the
\* caller gives, and in which order.
KeyOrders(c) ==
    {ks \in UNION {[1..m -> FieldNames(c)] : m \in 0..Len(fields_locals(c))} :
        \A a, b \in 1..Len(ks) : a # b => ks[a] # ks[b]}

RECURSIVE KwargsFor(_, _)
KwargsFor(c, ks) ==
    IF ks = <<>> THEN {<<>>}
    ELSE {<< <<Head(ks), v>> >> \o rest : v \in Candidates(c, Head(ks)),
                                          rest \in KwargsFor(c, Tail(ks))}

InitConstruct ==
    /\ pc = "start"
    /\ cls = "" /\ rec = PyNone /\ err = Idle /\ last = <<>> /\ wire = Idle /\ decoded = Idle
    /\ Field_order = 0 /\ stderr = 0
    /\ len_in = Big(0, 0) /\ len_out = Idle /\ len_back = <<>>
    /\ int_in = 0 /\ int_signed = TRUE /\ int_out = Idle /\ int_back = PyNone

\* schema.make(key=value, ...)
Construct ==
    /\ stderr < MaxConstructs
    /\ \E c \in ConstructClasses :
       \E ks \in KeyOrders(c) :
       \E kwargs \in KwargsFor(c, ks) :
          /\ cls' = c
          /\ last' = <<"construct", kwargs>>
          /\ err' = Raised(make(c, Field_order))
          /\ stderr' = stderr + make(c, Field_order).written
          /\ Field_order' = make(c, Field_order).order
    /\ rec' = PyNone
    /\ pc' = "constructed"
    /\ UNCHANGED <<wire, decoded, lenVars, intVars>>

NextConstruct == Construct

SpecConstruct == InitConstruct /\ [][NextConstruct]_vars

----------------------------------------------------------------------------
(* SpecCodec: get_fields, Field.serialize and Field.deserialize applied as  *)
(* functions.  self is an object, made without the constructor, of a schema *)
(* class declared with the constructors, of a bare schema class, or of      *)
(* Field itself, which declares no fields(); the value is an object         *)
(* holding, for every key, None or a value of the field's type.             *)

CodecClasses == SchemaClasses \cup BareClasses \cup {"Field"}

LongLength == 250

Leaf(v) == Object(<<PyNone, PyStr(v)>>)
Node(left, v) == Object(<<left, PyStr(v)>>)

\* The attribute values serialize is applied to.  97 is 'a'; 233, 8364 and
\* 65536 take two, three and four bytes in UTF-8; 55296 is a lone surrogate.
Attributes(key) ==
    CASE key = "age" ->
           {PyNone} \cup {PyInt(n) : n \in {-129, -128, -1, 0, 127, 128, 255, 256}}
      [] key = "name" ->
           {PyNone} \cup {PyStr(x) : x \in {<<>>, <<97>>, <<233>>, <<97, 98>>, <<97, 98, 99>>}}
      [] key = "diabetic" -> {PyNone, PyBool(TRUE), PyBool(FALSE)}
      [] key = "data" ->
           {PyNone, PyBytes([k \in 1..LongLength |-> 0])}
           \cup {PyBytes(x) : x \in {<<>>, <<0>>, <<1, 255>>}}
      [] key = "text" ->
           {PyNone} \cup {PyStr(x) : x \in {<<>>, <<97>>, <<233>>, <<8364>>, <<65536>>, <<55296>>}}
      [] key \in {"lo", "hi"} -> {PyNone} \cup {PyInt(n) : n \in {-1, 0, 1, 2}}
      [] key = "items" ->
           {PyNone, PyList(<<PyNone>>)}
           \cup {PyList(x) : x \in {<<>>, <<PyInt(1)>>, <<PyInt(1), PyInt(-200)>>}}
      [] key = "labels" ->
           {PyNone} \cup {PyList(x) : x \in {<<>>, <<PyStr(<<97>>)>>, <<PyStr(<<>>), PyStr(<<233>>)>>}}
      [] key = "left" -> {PyNone, Leaf(<<>>), Leaf(<<97>>), Node(Leaf(<<97>>), <<98>>)}
      [] key = "value" -> {PyNone} \cup {PyStr(x) : x \in {<<>>, <<97>>}}
      [] OTHER -> {PyNone}

\* The objects with one attribute per field of fields.
RECURSIVE AttributeLists(_)
AttributeLists(fields) ==
    IF fields = <<>> THEN {<<>>}
    ELSE {<<v>> \o rest : v \in Attributes(Head(fields).name),
                          rest \in AttributeLists(Tail(fields))}

InitCodec ==
    /\ pc = "codec_start"
    /\ cls \in CodecClasses
    /\ rec \in {Object(attrs) : attrs \in AttributeLists(fields_locals(cls))}
    /\ err = Idle /\ last = <<>> /\ wire = Idle /\ decoded = Idle
    /\ Field_order = 0 /\ stderr = 0
    /\ len_in = Big(0, 0) /\ len_out = Idle /\ len_back = <<>>
    /\ int_in = 0 /\ int_signed = TRUE /\ int_out = Idle /\ int_back = PyNone

\* self.get_fields()
GetFields ==
    /\ pc = "codec_start"
    /\ err' = get_fields(cls)
    /\ stderr' = stderr + written(get_fields(cls))
    /\ pc' = "fields_listed"
    /\ UNCHANGED <<cls, rec, last, wire, decoded, Field_order, lenVars, intVars>>

\* Field.serialize(self, value)
FieldSerialize ==
    /\ pc = "codec_start"
    /\ wire' = Field_serialize(cls, rec)
    /\ stderr' = stderr + written(Field_serialize(cls, rec))
    /\ pc' = "serialized"
    /\ UNCHANGED <<cls, rec, err, last, decoded, Field_order, lenVars, intVars>>

\* The bytes handed to Field.deserialize: those that serialize returned,
\* else those that a bare schema of the same fields writes for the value,
\* else a marker and one empty chunk.
PeerClass(c) ==
    CASE c = "Person" -> "BarePerson" [] c = "Blob" -> "BareBlob" [] c = "Range" -> "BareRange"
      [] c = "Bag" -> "BareBag" [] c = "Tree" -> "BareTree" [] OTHER -> c

DataFor(c, value, written_bytes) ==
    IF ~Failed(written_bytes) THEN written_bytes.val.s
    ELSE IF ~Failed(Field_serialize(PeerClass(c), value))
    THEN Field_serialize(PeerClass(c), value).val.s
    ELSE <<1, 0>>

\* Field.deserialize(self, data): kwargs is built, then self.make raises;
\* on a declared schema get_fields raises before.
FieldDeserialize ==
    /\ pc = "serialized"
    /\ last' = <<"deserialize", DataFor(cls, rec, wire)>>
    /\ decoded' = Field_kwargs(cls, DataFor(cls, rec, wire))
    /\ err' = Field_deserialize(cls, DataFor(cls, rec, wire))
    /\ stderr' = stderr + written(Field_deserialize(cls, DataFor(cls, rec, wire)))
    /\ pc' = "deserialized"
    /\ UNCHANGED <<cls, rec, wire, Field_order, lenVars, intVars>>

NextCodec == GetFields \/ FieldSerialize \/ FieldDeserialize

SpecCodec == InitCodec /\ [][NextCodec]_vars

----------------------------------------------------------------------------
(* Claims about construct (SpecConstruct) *)

\* The fields of the schema in use, in declaration order.
Fields == fields_locals(cls)

\* The value the caller gives for the field key, None when it gives none.
Given(kwargs, key) ==
    IF \E j \in 1..Len(kwargs) : kwargs[j][1] = key
    THEN kwargs[CHOOSE j \in 1..Len(kwargs) : kwargs[j][1] = key][2]
    ELSE PyNone

\* The runtime kind of a value disagrees with the declared kind of field f.
KindMismatch(f, v) == ~IsNone(v) /\ v.t # TypeName(f.kind)

\* C6: a value whose kind disagrees with the field's declared kind makes
\* construct fail with a ValidationError whose message begins with the name
\* of such a field; no other kind of exception comes out.
C6_TypeMismatchIsValidationError ==
    (/\ pc = "constructed"
     /\ \E k \in 1..Len(Fields) : KindMismatch(Fields[k], Given(last[2], Fields[k].name))) =>
        /\ err.exc = "ValidationError"
        /\ \E k \in 1..Len(Fields) :
              /\ KindMismatch(Fields[k], Given(last[2], Fields[k].name))
              /\ err.msg[1] = Fields[k].name

\* The value of a field after the default replaced None.
Defaulted(f, v) == IF IsNone(v) THEN f.default ELSE v

\* The per-field pipeline fails on the value v given for field f: None that
\* is not optional, or a value that fails check or check_type.
FieldFails(f, v) ==
    IF IsNone(Defaulted(f, v))
    THEN Failed(Field_check_optional(f, Defaulted(f, v)))
    ELSE Failed(check(f, Defaulted(f, v))) \/ Failed(check_type(f, Defaulted(f, v)))

\* C8: when fields would fail, the failure that construct propagates is the
\* one of the earliest failing field in declaration order: a ValidationError
\* carrying that field's name, in whatever order the caller gave the values,
\* provided or omitted.
C8_ConstructInDeclarationOrder ==
    pc = "constructed" =>
        \A k \in 1..Len(Fields) :
            (/\ FieldFails(Fields[k], Given(last[2], Fields[k].name))
             /\ \A j \in 1..(k - 1) : ~FieldFails(Fields[j], Given(last[2], Fields[j].name)))
                => /\ err.exc = "ValidationError"
                   /\ err.msg[1] = Fields[k].name

----------------------------------------------------------------------------
(* Claims about the wire codec (SpecCodec) *)

\* The chunks the wire layout prescribes for the attribute values attrs.
RECURSIVE LayoutChunks(_, _)
LayoutChunks(fields, attrs) ==
    IF fields = <<>> THEN <<>>
    ELSE (IF IsNone(Head(attrs)) THEN <<0>>
          ELSE encode_length(NatToBig(Len(serialize(Head(fields), Head(attrs)).val.s))).val.s
               \o serialize(Head(fields), Head(attrs)).val.s)
         \o LayoutChunks(Tail(fields), Tail(attrs))

OrderedAttributes ==
    [k \in 1..Len(ordered_fields(cls)) |-> getattr(cls, rec, ordered_fields(cls)[k].name)]

\* What serialize does: on a declared schema it raises 'Upgrade Encodium'
\* in get_fields; on a bare schema it raises only through the OverflowError
\* of Integer.serialize and the UnicodeEncodeError of a str holding a
\* surrogate, and else writes the chunks in the order of the keys.
WireLayoutInKeyOrder ==
    pc \in {"serialized", "deserialized"} =>
        /\ cls \in SchemaClasses => wire = UpgradeEncodium
        /\ cls \in BareClasses =>
              IF Failed(wire) THEN wire.exc \in {"OverflowError", "UnicodeEncodeError"}
              ELSE wire.val.s = <<1>> \o LayoutChunks(ordered_fields(cls), OrderedAttributes)

IsEmpty(v) == v.t \in {"bytes", "str"} /\ v.s = <<>>

\* The payload of the k-th chunk of the wire value data, if there is one.
ChunkAt(data, k) ==
    IF k <= Len(ParseChunks(data, 1)) THEN <<"payload", ParseChunks(data, 1)[k]>>
    ELSE <<"no chunk">>

\* The fields of kind Bytes or String, and the position of a field in the
\* list of get_fields().
TextFields == {k \in 1..Len(Fields) : Fields[k].kind \in {"Bytes", "String"}}
Position(k) == CHOOSE p \in 1..Len(ordered_fields(cls)) : ordered_fields(cls)[p].name = Fields[k].name

\* C9 as stated: a Bytes or String field holding the empty value and the
\* same field absent serialize to the same chunk, and deserialize cannot
\* tell them apart.
C9_AsStated ==
    (pc \in {"serialized", "deserialized"} /\ ~Failed(wire)) =>
        \A k \in TextFields :
            IsEmpty(rec.l[k]) =>
                /\ wire = Field_serialize(cls, [rec EXCEPT !.l[k] = PyNone])
                /\ (pc = "deserialized" /\ ~Failed(decoded)) => IsNone(decoded.val.l[Position(k)])

\* C9 amended: wherever serialize returns, the empty value and absence are
\* distinct on the wire: the empty value is the chunk 0x01 0x01 (length 1,
\* the presence byte), absence the chunk 0x00; deserialize reads the empty
\* value back from the one and None from the other, and then fails in make.
C9_EmptyDistinctFromAbsent ==
    /\ (pc \in {"serialized", "deserialized"} /\ ~Failed(wire)) =>
          \A k \in TextFields :
              /\ IsEmpty(rec.l[k]) =>
                    /\ wire # Field_serialize(cls, [rec EXCEPT !.l[k] = PyNone])
                    /\ ChunkAt(wire.val.s, Position(k)) = <<"payload", <<1>>>>
                    /\ (pc = "deserialized" /\ ~Failed(decoded)) =>
                          decoded.val.l[Position(k)] = rec.l[k]
              /\ IsNone(rec.l[k]) =>
                    /\ ChunkAt(wire.val.s, Position(k)) = <<"payload", <<>>>>
                    /\ (pc = "deserialized" /\ ~Failed(decoded)) =>
                          IsNone(decoded.val.l[Position(k)])
    /\ (cls = "BareBlob" /\ pc \in {"serialized", "deserialized"}) =>
          /\ (IsEmpty(rec.l[1]) /\ IsNone(rec.l[2])) => wire.val.s = <<1, 1, 1, 0>>
          /\ (IsNone(rec.l[1]) /\ IsNone(rec.l[2])) => wire.val.s = <<1, 0, 0>>
          /\ (IsNone(rec.l[1]) /\ IsEmpty(rec.l[2])) => wire.val.s = <<1, 0, 1, 1>>
    /\ (cls = "BareBlob" /\ pc = "deserialized" /\ ~Failed(wire)) =>
          /\ ~Failed(decoded)
          /\ err = UpgradeEncodium

\* A value with data = b'' and text = None was serialized by a bare Blob
\* schema and read back: the bytes are 01 01 01 00 and kwargs is data = b'',
\* text = None.
C9_Witness ==
    /\ cls = "BareBlob"
    /\ pc = "deserialized"
    /\ rec = Object(<<PyBytes(<<>>), PyNone>>)
    /\ wire = Ok(PyBytes(<<1, 1, 1, 0>>))
    /\ decoded = Ok(PyList(<<PyBytes(<<>>), PyNone>>))
    /\ err = UpgradeEncodium

====
